---- MODULE Spec2Model ----
(***************************************************************************)
(* A model of invenio-vocabularies' ROR transformer                        *)
(* (contrib/common/ror/datastreams.py) and of its datastream readers       *)
(* (datastreams/readers.py).                                               *)
(*                                                                         *)
(* Python dicts are functions whose DOMAIN is the set of keys present;     *)
(* None is the string NoneVal; a generator is a position (pc) advanced by  *)
(* the consumer's next() and ended by exhaustion, an error or close().     *)
(***************************************************************************)
EXTENDS Integers, Sequences, FiniteSets, TLC

VARIABLES
    \* ---- RORTransformer ----
    cfg,        \* the transformer's keyword arguments (a dict)
    raw,        \* the raw record handed to apply (kept to state the claims)
    entry,      \* stream_entry.entry, the envelope's payload
    outcome,    \* "pending", "ok", or the kind of the error apply raised
    \* ---- readers ----
    rd,         \* the reader: class, origin, regex, ids
    item,       \* the item handed to read()
    content,    \* what the resource that is read holds
    pc,         \* the generator: created, suspended, finished, raised, closed
    src,        \* what read() iterates: none, item, origin
    owned,      \* the stack of resources the reader opened and still holds
    handles,    \* the handles that are open
    idx,        \* how many members / entries / ids have been consumed
    yielded,    \* the units yielded so far
    err,        \* the kind of the error raised ("none" when none)
    requests,   \* the HTTP requests issued so far
    responses   \* the HTTP responses received so far

rorVars == <<cfg, raw, entry, outcome>>
readerVars == <<rd, item, content, pc, src, owned, handles, idx, yielded, err,
                requests, responses>>
vars == <<cfg, raw, entry, outcome, rd, item, content, pc, src, owned, handles,
          idx, yielded, err, requests, responses>>

(***************************************************************************)
(* Bounds of the model.                                                    *)
(***************************************************************************)
MaxNames == 4
MaxLocations == 2
MaxExternalIds == 2
MaxMembers == 3
MaxEntries == 2
MaxIds == 2

(***************************************************************************)
(* Python values.                                                          *)
(***************************************************************************)
NoneVal == "<None>"
EmptyDict == <<>>

\* bool(v) of a string or None
Falsy(v) == v = NoneVal \/ v = ""

\* dict.get(k) with the default None
Get(d, k) == IF k \in DOMAIN d THEN d[k] ELSE NoneVal

\* dict.get(k, default)
GetOr(d, k, default) == IF k \in DOMAIN d THEN d[k] ELSE default

\* d[k] = v
Put(d, k, v) == (k :> v) @@ d

Range(s) == {s[i] : i \in DOMAIN s}

\* The sequences over S of length at most n
SeqsUpTo(S, n) == UNION {[1..k -> S] : k \in 0..n}

\* The ways to list n elements: the bijections on 1..n
Orderings(n) == {p \in [1..n -> 1..n] : \A i, j \in 1..n : p[i] = p[j] => i = j}

(***************************************************************************)
(* idutils.normalize_ror, as the call site uses it: the canonical form of  *)
(* a ROR id (the bare id, the URL prefix removed), nothing for a value     *)
(* that is no ROR id.                                                      *)
(***************************************************************************)
RorUrl == "https://ror.org/05dxps055"
RorBare == "05dxps055"

normalize_ror(val) ==
    CASE val = RorUrl -> RorBare
      [] val = RorBare -> RorBare
      [] OTHER -> NoneVal

(***************************************************************************)
(* RORTransformer.apply                                                    *)
(***************************************************************************)

\* aliases.add(value): aliases is a set, kept here in insertion order
AddAliasDup(aliases, value) == Append(aliases, value)
AddAlias(aliases, value) ==
    IF value \in Range(aliases) THEN aliases ELSE Append(aliases, value)

\* One round of the loop over record["names"]; st holds the locals ror,
\* aliases and acronym.
ScanName(st, name) ==
    LET l0 == IF "lang" \in DOMAIN name THEN name["lang"] ELSE "en"
        lang == IF l0 = NoneVal THEN "en" ELSE l0
        r1 == IF "ror_display" \in name["types"]
              THEN Put(st.ror, "name", name["value"]) ELSE st.ror
        r2 == IF "label" \in name["types"]
              THEN Put(r1, "title", Put(r1["title"], lang, name["value"]))
              ELSE r1
        a1 == IF "alias" \in name["types"]
              THEN AddAlias(st.aliases, name["value"]) ELSE st.aliases
        isAcr == "acronym" \in name["types"]
        acr == IF isAcr /\ Falsy(st.acronym) THEN name["value"] ELSE st.acronym
        a2 == IF isAcr /\ ~Falsy(st.acronym)
              THEN AddAlias(a1, name["value"]) ELSE a1
    IN [ror |-> r2, aliases |-> a2, acronym |-> acr]

RECURSIVE ScanNames(_, _, _)
ScanNames(st, names, i) ==
    IF i > Len(names) THEN st
    ELSE ScanNames(ScanName(st, names[i]), names, i + 1)

\* The alias set apply collects from the names
AliasesOf(names) ==
    ScanNames([ror |-> ("title" :> EmptyDict), aliases |-> <<>>,
               acronym |-> NoneVal], names, 1).aliases

\* The scheme and value a kept external identifier is listed under
IdentifierOfNoRewrite(identifier, prefix) ==
    LET value == IF ~Falsy(Get(identifier, "preferred"))
                 THEN identifier["preferred"] ELSE identifier["all"][1]
    IN [identifier |-> value, scheme |-> identifier["type"]]
IdentifierOf(identifier, prefix) ==
    LET value == IF ~Falsy(Get(identifier, "preferred"))
                 THEN identifier["preferred"] ELSE identifier["all"][1]
    IN IF identifier["type"] = "fundref" /\ ~Falsy(prefix)
       THEN [identifier |-> prefix \o "/" \o value, scheme |-> "doi"]
       ELSE [identifier |-> value, scheme |-> identifier["type"]]

\* The schemes apply keeps
ValidSchemes(c) ==
    (IF "vocab_schemes" \in DOMAIN c /\ c["vocab_schemes"] # {}
     THEN c["vocab_schemes"] ELSE {})
    \cup (IF ~Falsy(Get(c, "funder_fundref_doi_prefix")) THEN {"fundref"} ELSE {})

\* The loop over record["external_ids"]; st holds the identifiers so far and
\* the error raised, if any.
RECURSIVE ScanExternalIds(_, _, _, _)
ScanExternalIds(st, ids, i, c) ==
    IF i > Len(ids) \/ st.kind # "ok" THEN st
    ELSE LET identifier == ids[i] IN
         IF identifier["type"] \notin ValidSchemes(c)
         THEN ScanExternalIds(st, ids, i + 1, c)
         ELSE IF Falsy(Get(identifier, "preferred")) /\ identifier["all"] = <<>>
         THEN [st EXCEPT !.kind = "IndexError"]
         ELSE ScanExternalIds(
                [st EXCEPT !.identifiers =
                    Append(@, IdentifierOf(identifier,
                                  Get(c, "funder_fundref_doi_prefix")))],
                ids, i + 1, c)

\* The first location's geonames_details
FirstLocation(locations) == GetOr(locations[1], "geonames_details", EmptyDict)

\* apply up to its return or raise: the kind of the outcome and the local
\* ror as it stands then. order is the order list(aliases) lists the set in.
Transform(record, c, order) ==
    LET ror0 == ("id" :> normalize_ror(Get(record, "id"))) @@ ("title" :> EmptyDict)
    IN
    IF Falsy(ror0["id"]) THEN [kind |-> "TransformerError", ror |-> ror0]
    ELSE IF "names" \notin DOMAIN record THEN [kind |-> "TypeError", ror |-> ror0]
    ELSE
    LET st == ScanNames([ror |-> ror0, aliases |-> <<>>, acronym |-> NoneVal],
                        record["names"], 1)
        ror1 == IF ~Falsy(st.acronym) THEN Put(st.ror, "acronym", st.acronym)
                ELSE st.ror
        ror2 == IF st.aliases # <<>>
                THEN Put(ror1, "aliases",
                         [i \in 1..Len(st.aliases) |-> st.aliases[order[i]]])
                ELSE ror1
    IN
    IF "name" \notin DOMAIN ror2 THEN [kind |-> "KeyError", ror |-> ror2]
    ELSE IF Falsy(ror2["name"]) THEN [kind |-> "TransformerError", ror |-> ror2]
    ELSE
    LET locations == IF "locations" \in DOMAIN record
                     THEN record["locations"] ELSE <<EmptyDict>>
    IN
    IF locations = <<>> THEN [kind |-> "IndexError", ror |-> ror2]
    ELSE
    LET location == FirstLocation(locations)
        ror3 == ("country" :> Get(location, "country_code"))
                @@ ("country_name" :> Get(location, "country_name"))
                @@ ("location_name" :> Get(location, "name"))
                @@ ("types" :> record["types"])
                @@ ("status" :> Get(record, "status"))
                @@ ("identifiers" :> <<[identifier |-> ror2["id"], scheme |-> "ror"]>>)
                @@ ror2
    IN
    IF "external_ids" \notin DOMAIN record THEN [kind |-> "TypeError", ror |-> ror3]
    ELSE
    LET s == ScanExternalIds([kind |-> "ok", identifiers |-> ror3["identifiers"]],
                             record["external_ids"], 1, c)
    IN [kind |-> s.kind, ror |-> Put(ror3, "identifiers", s.identifiers)]

\* stream_entry.entry once apply has returned or raised
NewEntryPartial(record, result) == result.ror
NewEntry(record, result) == IF result.kind = "ok" THEN result.ror ELSE record

(***************************************************************************)
(* The raw records and configurations apply is run on.                     *)
(***************************************************************************)
Name(types, value) == ("types" :> types) @@ ("value" :> value)

NameOptions ==
    { Name({"ror_display"}, "Example"),
      Name({"ror_display"}, ""),
      Name({"label"}, "Beispiel") @@ ("lang" :> "de"),
      Name({"ror_display", "label"}, "Example") @@ ("lang" :> NoneVal),
      Name({"acronym"}, "EX1"),
      Name({"acronym"}, "EX2"),
      Name({"acronym"}, ""),
      Name({"alias"}, "Example Org"),
      Name({"alias", "acronym"}, "EX2") }

Geo(code, country, place) ==
    "geonames_details" :>
        [country_code |-> code, country_name |-> country, name |-> place]

LocationOptions ==
    { Geo("US", "United States", "Pasadena"),
      Geo("CH", "Switzerland", "Geneva"),
      EmptyDict }

ExternalIdOptions ==
    { ("type" :> t) @@ v :
        t \in {"fundref", "isni", "grid"},
        v \in { ("preferred" :> "P1") @@ ("all" :> <<"A1">>),
                ("preferred" :> NoneVal) @@ ("all" :> <<"A1", "A2">>),
                ("all" :> <<>>) } }

IdOptions == { EmptyDict, "id" :> "not-a-ror", "id" :> RorUrl, "id" :> RorBare }

Common == ("types" :> <<"funder">>) @@ ("status" :> "active")

DisplayOnly == <<Name({"ror_display"}, "Example")>>

Opt(key, S) == {EmptyDict} \cup {key :> v : v \in S}

ConfigOptions ==
    { s @@ p :
        s \in Opt("vocab_schemes", {{}, {"isni"}, {"isni", "fundref"}}),
        p \in Opt("funder_fundref_doi_prefix", {"", "10.13039"}) }

BaseConfig == ("vocab_schemes" :> {"isni", "grid"})
              @@ ("funder_fundref_doi_prefix" :> "10.13039")

\* Records that vary in their names
RecordsByNames ==
    { i @@ n @@ ("external_ids" :> <<>>) @@ Common :
        i \in {EmptyDict, "id" :> RorUrl},
        n \in Opt("names", SeqsUpTo(NameOptions, MaxNames)) }

\* Records that vary in their locations
RecordsByLocations ==
    { i @@ ("names" :> n) @@ l @@ ("external_ids" :> <<>>) @@ Common :
        i \in IdOptions,
        n \in {<<>>, DisplayOnly},
        l \in Opt("locations", SeqsUpTo(LocationOptions, MaxLocations)) }

\* Records that vary in their external identifiers
RecordsByExternalIds ==
    { i @@ ("names" :> DisplayOnly) @@ e @@ Common :
        i \in {"id" :> RorUrl, "id" :> RorBare},
        e \in Opt("external_ids", SeqsUpTo(ExternalIdOptions, MaxExternalIds)) }

Inputs ==
    ((RecordsByNames \cup RecordsByLocations) \X {BaseConfig})
    \cup (RecordsByExternalIds \X ConfigOptions)

\* The readers' variables while the transformer runs
ReadersIdle ==
    /\ rd = [cls |-> "none"]
    /\ item = [kind |-> "None"]
    /\ content = <<>>
    /\ pc = "idle"
    /\ src = "none"
    /\ owned = <<>>
    /\ handles = {}
    /\ idx = 0
    /\ yielded = <<>>
    /\ err = "none"
    /\ requests = <<>>
    /\ responses = <<>>

InitROR ==
    /\ \E in \in Inputs :
        /\ raw = in[1]
        /\ cfg = in[2]
        /\ entry = in[1]
    /\ outcome = "pending"
    /\ ReadersIdle

\* transformer.apply(stream_entry)
Apply ==
    /\ outcome = "pending"
    /\ \E order \in Orderings(Len(IF "names" \in DOMAIN raw
                                  THEN AliasesOf(raw["names"]) ELSE <<>>)) :
        LET result == Transform(entry, cfg, order) IN
        /\ outcome' = result.kind
        /\ entry' = NewEntry(entry, result)
    /\ UNCHANGED <<cfg, raw>>
    /\ UNCHANGED readerVars

NextROR == Apply

SpecROR == InitROR /\ [][NextROR]_vars

(***************************************************************************)
(* The readers (datastreams/readers.py).                                   *)
(*                                                                         *)
(* A reader is the dict of its constructor's arguments plus its class.     *)
(* An item is None, an empty string or empty bytes (falsy values), a byte  *)
(* buffer (io.BytesIO: truthy even when empty, without a name), a named    *)
(* open handle (a file, an archive member), an open archive (ZipFile,      *)
(* TarFile) or a URL.                                                      *)
(***************************************************************************)
BaseClasses == {"JsonReader", "GzipReader"}
ArchiveClasses == {"ZipReader", "TarReader"}

\* bool(item)
Truthy(it) == it.kind \notin {"None", "EmptyStr", "EmptyBytes"}

\* The items that are open handles when read() is called
IsHandle(it) == it.kind \in {"Buffer", "Handle", "Archive"}

\* Leaving the with blocks of read() and _iter(): what the reader opened is
\* closed, and nothing else
ReleaseLeak(own, open) == open
Release(own, open) == open \ Range(own)

\* BaseReader.read up to the call of _iter: what is iterated, what was opened
BaseOpen(r, it) ==
    IF Truthy(it) THEN [src |-> "item", owned |-> <<>>, err |-> "none"]
    ELSE IF Get(r, "origin") = NoneVal
    THEN [src |-> "none", owned |-> <<>>, err |-> "TypeError"]
    ELSE [src |-> "origin", owned |-> <<"file">>, err |-> "none"]

\* ZipReader.read and TarReader.read up to the call of _iter. Opening an
\* origin of None fails (the error kind is the library's: OpenError here).
ArchiveOpen(r, it) ==
    IF Truthy(it)
    THEN IF it.kind = "Archive"
         THEN [src |-> "item", owned |-> <<>>, err |-> "none"]
         ELSE [src |-> "item", owned |-> <<"archive">>, err |-> "none"]
    ELSE IF Get(r, "origin") = NoneVal
    THEN [src |-> "none", owned |-> <<>>, err |-> "OpenError"]
    ELSE [src |-> "origin", owned |-> <<"archive">>, err |-> "none"]

\* re.compile(regex) if regex else None
HasRegex(r) == "regex" \in DOMAIN r /\ r["regex"] # <<>>

\* regex.search(name), for a regex that is a literal
Search(pattern, name) ==
    \E k \in 0..(Len(name) - Len(pattern)) :
        SubSeq(name, k + 1, k + Len(pattern)) = pattern

\* ZipInfo.is_dir()
is_dir(member) == member.name # <<>> /\ member.name[Len(member.name)] = "/"

\* TarInfo.isfile()
isfile(member) == member.type = "file"

\* Whether _iter yields a handle for the member
SelectedNoDirCheck(r, member) == ~HasRegex(r) \/ Search(r["regex"], member.name)
Selected(r, member) ==
    LET match == ~HasRegex(r) \/ Search(r["regex"], member.name)
    IN IF r["cls"] = "ZipReader" THEN ~is_dir(member) /\ match
       ELSE isfile(member) /\ match

\* The loop of _iter from the member after i: the next member it yields a
\* handle for, 0 when the loop ends
RECURSIVE NextMember(_, _, _)
NextMember(r, members, i) ==
    IF i >= Len(members) THEN 0
    ELSE IF Selected(r, members[i + 1]) THEN i + 1
    ELSE NextMember(r, members, i + 1)

\* fp.name exists: a file opened from the origin or a named handle
HasName(s, it) == s = "origin" \/ it.kind = "Handle"

\* json.load(fp) and the except clause: the error _iter raises, if any
JsonError(doc, s, it) ==
    CASE doc.kind = "malformed" ->
            IF HasName(s, it) THEN "ReaderError" ELSE "AttributeError"
      [] doc.kind = "badencoding" -> "UnicodeDecodeError"
      [] OTHER -> "none"

\* The entries JsonReader._iter yields
JsonEntries(doc) ==
    IF doc.kind = "list" THEN doc.items ELSE <<doc>>

\* self._ids = ids if ids else [id]
Ids(r) == IF "ids" \in DOMAIN r /\ r["ids"] # <<>> THEN r["ids"] ELSE <<r["id"]>>

\* url = item if item else self._origin
HTTPUrl(r, it) == IF Truthy(it) THEN it.url ELSE r["origin"]

\* base_url.format(id=id_), for a template that ends in {id}
Format(base, id) == base \o id

\* What _iter hands the consumer for a response
AfterResponseSkipping(ys, resp) ==
    IF resp.status_code = 200 THEN Append(ys, resp.content) ELSE ys
AfterResponse(ys, resp) == Append(ys, resp.content)

(***************************************************************************)
(* The readers, items and contents the model runs.                         *)
(***************************************************************************)
MemberOptions ==
    { [name |-> <<"a">>, type |-> "file"],
      [name |-> <<"b">>, type |-> "file"],
      [name |-> <<"a", "/">>, type |-> "dir"],
      [name |-> <<"a", "b">>, type |-> "link"] }

RegexOptions == Opt("regex", {<<>>, <<"a">>, <<"b">>})

OriginOptions == Opt("origin", {"/data/in"})

JsonDocs ==
    {[kind |-> "list", items |-> v] : v \in SeqsUpTo({"r1", "r2"}, MaxEntries)}
    \cup {[kind |-> "object", name |-> "r1"],
          [kind |-> "malformed"], [kind |-> "badencoding"]}

Kinds(S) == {[kind |-> k] : k \in S}

ReaderInputs ==
    ({("cls" :> "JsonReader") @@ o : o \in OriginOptions}
        \X Kinds({"None", "EmptyStr", "EmptyBytes", "Buffer", "Handle"})
        \X JsonDocs)
    \cup
    ({("cls" :> "GzipReader") @@ o : o \in OriginOptions}
        \X Kinds({"None", "EmptyBytes", "Buffer", "Handle"})
        \X {<<>>})
    \cup
    ({("cls" :> c) @@ o @@ x :
            c \in ArchiveClasses, o \in OriginOptions, x \in RegexOptions}
        \X Kinds({"None", "EmptyBytes", "Buffer", "Archive"})
        \X SeqsUpTo(MemberOptions, MaxMembers))
    \cup
    ({("cls" :> "SimpleHTTPReader") @@ ("origin" :> "http://o/") @@ i :
            i \in {"id" :> "x"}
                  \cup {"ids" :> v : v \in SeqsUpTo({"x", "y"}, MaxIds)
                                           \ {<<>>}}
                  \cup {("ids" :> <<>>) @@ ("id" :> "y")}}
        \X {[kind |-> "None"], [kind |-> "EmptyStr"],
            [kind |-> "Url", url |-> "http://i/"]}
        \X {<<>>})

\* The transformer's variables while a reader runs
RORIdle ==
    /\ cfg = EmptyDict
    /\ raw = EmptyDict
    /\ entry = EmptyDict
    /\ outcome = "idle"

InitReaders ==
    /\ \E in \in ReaderInputs :
        /\ rd = in[1]
        /\ item = in[2]
        /\ content = in[3]
        /\ handles = IF IsHandle(in[2]) THEN {"item"} ELSE {}
    /\ pc = "created"
    /\ src = "none"
    /\ owned = <<>>
    /\ idx = 0
    /\ yielded = <<>>
    /\ err = "none"
    /\ requests = <<>>
    /\ responses = <<>>
    /\ RORIdle

Live == pc \in {"created", "suspended"}

\* The generator returns: its with blocks are left
Finish(own) ==
    /\ pc' = "finished"
    /\ owned' = <<>>
    /\ handles' = Release(own, handles)
    /\ UNCHANGED <<idx, yielded, err>>

\* The generator raises: its with blocks are left
Raise(kind, own) ==
    /\ pc' = "raised"
    /\ err' = kind
    /\ owned' = <<>>
    /\ handles' = Release(own, handles)
    /\ UNCHANGED <<idx, yielded>>

\* next() on JsonReader.read(item): BaseReader.read and JsonReader._iter up
\* to the next yield, the return or the raise
JsonNext ==
    /\ rd["cls"] = "JsonReader"
    /\ Live
    /\ LET o == IF pc = "created" THEN BaseOpen(rd, item)
                ELSE [src |-> src, owned |-> owned, err |-> "none"]
           e == JsonError(content, o.src, item)
       IN /\ src' = o.src
          /\ IF o.err # "none" THEN Raise(o.err, o.owned)
             ELSE IF e # "none" THEN Raise(e, o.owned)
             ELSE IF idx < Len(JsonEntries(content))
             THEN /\ pc' = "suspended"
                  /\ idx' = idx + 1
                  /\ yielded' = Append(yielded, JsonEntries(content)[idx + 1])
                  /\ owned' = o.owned
                  /\ handles' = handles \cup Range(o.owned)
                  /\ err' = err
             ELSE Finish(o.owned)
    /\ UNCHANGED <<rd, item, content, requests, responses>>
    /\ UNCHANGED rorVars

\* next() on GzipReader.read(item): BaseReader.read and GzipReader._iter
GzipNext ==
    /\ rd["cls"] = "GzipReader"
    /\ Live
    /\ IF pc = "created"
       THEN LET o == BaseOpen(rd, item) IN
            /\ src' = o.src
            /\ IF o.err # "none" THEN Raise(o.err, o.owned)
               ELSE /\ pc' = "suspended"
                    /\ owned' = Append(o.owned, "gzip")
                    /\ handles' = handles \cup Range(o.owned) \cup {"gzip"}
                    /\ yielded' = Append(yielded, "gp")
                    /\ idx' = 1
                    /\ err' = err
       ELSE /\ Finish(owned)
            /\ src' = src
    /\ UNCHANGED <<rd, item, content, requests, responses>>
    /\ UNCHANGED rorVars

\* next() on ZipReader.read(item) or TarReader.read(item)
ArchiveNext ==
    /\ rd["cls"] \in ArchiveClasses
    /\ Live
    /\ LET o == IF pc = "created" THEN ArchiveOpen(rd, item)
                ELSE [src |-> src, owned |-> owned, err |-> "none"]
           j == NextMember(rd, content, idx)
       IN /\ src' = o.src
          /\ IF o.err # "none" THEN Raise(o.err, o.owned)
             ELSE IF j # 0
             THEN /\ pc' = "suspended"
                  /\ idx' = j
                  /\ yielded' = Append(yielded, [member |-> j])
                  /\ owned' = o.owned
                  /\ handles' = handles \cup Range(o.owned)
                  /\ err' = err
             ELSE Finish(o.owned)
    /\ UNCHANGED <<rd, item, content, requests, responses>>
    /\ UNCHANGED rorVars

\* next() on SimpleHTTPReader.read(item): one request, whose response the
\* server decides
HTTPNext ==
    /\ rd["cls"] = "SimpleHTTPReader"
    /\ Live
    /\ src' = IF Truthy(item) THEN "item" ELSE "origin"
    /\ IF idx < Len(Ids(rd))
       THEN \E status \in {200, 404} :
            LET url == Format(HTTPUrl(rd, item), Ids(rd)[idx + 1])
                resp == [status_code |-> status,
                         content |-> [of |-> url, status |-> status]]
            IN /\ requests' = Append(requests, url)
               /\ responses' = Append(responses, resp)
               /\ yielded' = AfterResponse(yielded, resp)
               /\ idx' = idx + 1
               /\ pc' = "suspended"
               /\ UNCHANGED <<owned, handles, err>>
       ELSE /\ Finish(owned)
            /\ UNCHANGED <<requests, responses>>
    /\ UNCHANGED <<rd, item, content>>
    /\ UNCHANGED rorVars

\* The consumer stops and closes the generator: GeneratorExit at the yield
\* leaves the with blocks (a generator that never ran has opened nothing)
Close ==
    /\ Live
    /\ pc' = "closed"
    /\ owned' = <<>>
    /\ handles' = Release(owned, handles)
    /\ UNCHANGED <<rd, item, content, src, idx, yielded, err, requests, responses>>
    /\ UNCHANGED rorVars

NextReaders == JsonNext \/ GzipNext \/ ArchiveNext \/ HTTPNext \/ Close

SpecReaders == InitReaders /\ [][NextReaders]_vars

(***************************************************************************)
(* Claims about RORTransformer.apply (checked under SpecROR).              *)
(***************************************************************************)
Applied == outcome # "pending"

IdOf(record) == normalize_ror(Get(record, "id"))

\* The indices of the names of a given type
Typed(names, type) == {i \in DOMAIN names : type \in names[i]["types"]}

Min(S) == CHOOSE m \in S : \A n \in S : m <= n

AliasSet(ror) == IF "aliases" \in DOMAIN ror THEN Range(ror["aliases"]) ELSE {}

NoDuplicates(s) == \A i, j \in DOMAIN s : s[i] = s[j] => i = j

\* C1: a raw record whose names list holds no ror_display-typed entry (the
\* empty list included) makes apply raise TransformerError, never another
\* error kind and never a returned record.
C1_NoDisplayNameRaisesTransformerError ==
    (Applied /\ "names" \in DOMAIN raw /\ Typed(raw["names"], "ror_display") = {})
        => outcome = "TransformerError"

C3_Value(e) ==
    IF "preferred" \in DOMAIN e /\ e["preferred"] \notin {NoneVal, ""}
    THEN e["preferred"] ELSE e["all"][1]

C3_Prefix == GetOr(cfg, "funder_fundref_doi_prefix", NoneVal)
C3_PrefixSet == C3_Prefix \notin {NoneVal, ""}
C3_Table == GetOr(cfg, "vocab_schemes", {})

C3_Emitted(e) ==
    IF e["type"] = "fundref" /\ C3_PrefixSet
    THEN [identifier |-> C3_Prefix \o "/" \o C3_Value(e), scheme |-> "doi"]
    ELSE [identifier |-> C3_Value(e), scheme |-> e["type"]]

C3_Own == <<[identifier |-> IdOf(raw), scheme |-> "ror"]>>

C3_Map(es) == [i \in 1..Len(es) |-> C3_Emitted(es[i])]

\* As claimed: without a DOI prefix a fundref identifier is never listed
C3_KeptAsClaimed(e) ==
    IF e["type"] = "fundref" THEN C3_PrefixSet ELSE e["type"] \in C3_Table

\* As the code has it: without a DOI prefix a fundref identifier is listed
\* when fundref is a key of the scheme table
C3_Kept(e) ==
    e["type"] \in C3_Table \/ (e["type"] = "fundref" /\ C3_PrefixSet)

\* C3 (as claimed): identifiers starts with the record's own id under scheme
\* ror; the further entries are the external identifiers whose scheme is in
\* the scheme table, in source order; fundref is listed as doi with
\* <prefix>/<value> when a DOI prefix is configured and is not listed at all
\* when none is, even if fundref is a key of the scheme table.
C3_IdentifiersAsClaimed ==
    outcome = "ok" =>
        entry["identifiers"] =
            C3_Own \o C3_Map(SelectSeq(raw["external_ids"], C3_KeptAsClaimed))

\* C3 (amended): as above, but without a DOI prefix a fundref identifier is
\* listed exactly when fundref is a key of the scheme table, and then
\* unchanged under scheme fundref.
C3_Identifiers ==
    outcome = "ok" =>
        entry["identifiers"] =
            C3_Own \o C3_Map(SelectSeq(raw["external_ids"], C3_Kept))

C3_Witness ==
    /\ outcome = "ok"
    /\ ~C3_PrefixSet
    /\ "fundref" \in C3_Table
    /\ Len(raw["external_ids"]) = 2
    /\ raw["external_ids"][1]["type"] = "isni"
    /\ raw["external_ids"][2]["type"] = "fundref"
    /\ Len(entry["identifiers"]) = 3
    /\ entry["identifiers"][3]["scheme"] = "fundref"

C5_HasDisplayName(record) ==
    /\ "names" \in DOMAIN record
    /\ Typed(record["names"], "ror_display") # {}
    /\ \A i \in Typed(record["names"], "ror_display") :
            record["names"][i]["value"] # ""

\* Every external identifier has a value
C5_ExternalIdsWellFormed(record) ==
    /\ "external_ids" \in DOMAIN record
    /\ \A i \in DOMAIN record["external_ids"] :
        LET e == record["external_ids"][i]
        IN ("preferred" \in DOMAIN e /\ e["preferred"] \notin {NoneVal, ""})
           \/ e["all"] # <<>>

C5_Geo(record) ==
    IF "locations" \in DOMAIN record /\ record["locations"] # <<>>
    THEN GetOr(record["locations"][1], "geonames_details", EmptyDict)
    ELSE EmptyDict

\* C5: for a raw record with a valid id and a ror_display name, whatever
\* its locations (key absent, no entry, one, several), normalization
\* succeeds; country, country_name and location_name come from the first
\* location when there is one and are None when there is none.
C5_FirstLocationOnly ==
    (Applied /\ ~Falsy(IdOf(raw)) /\ C5_HasDisplayName(raw)
        /\ C5_ExternalIdsWellFormed(raw)) =>
        /\ outcome = "ok"
        /\ entry["country"] = Get(C5_Geo(raw), "country_code")
        /\ entry["country_name"] = Get(C5_Geo(raw), "country_name")
        /\ entry["location_name"] = Get(C5_Geo(raw), "name")

(***************************************************************************)
(* Claims about the readers (checked under SpecReaders).                   *)
(***************************************************************************)
Ended == pc \in {"finished", "raised", "closed"}

IsPrefix(s, t) == Len(s) <= Len(t) /\ s = SubSeq(t, 1, Len(s))

\* The filter of the claim: a file member whose name the pattern occurs in
C6_Filter == IF "regex" \in DOMAIN rd THEN rd["regex"] ELSE <<>>

C6_Occurs(pattern, name) ==
    \E pre, post \in SeqsUpTo({"a", "b", "/"}, Len(name)) :
        name = pre \o pattern \o post

C6_Matching ==
    {i \in DOMAIN content : /\ content[i].type = "file"
                            /\ C6_Occurs(C6_Filter, content[i].name)}

\* The members of S below i
C6_Rank(S, i) == Cardinality({j \in S : j <= i})

C6_Expected ==
    [k \in 1..Cardinality(C6_Matching) |->
        [member |-> CHOOSE i \in C6_Matching : C6_Rank(C6_Matching, i) = k]]

\* C6: for an archive (zip or tar) of file members and directory entries, a
\* full iteration yields exactly one handle per file member whose name
\* matches the filter, in the archive's member order (every file member
\* when no filter is configured); a partial iteration yields a prefix.
C6_ArchiveYieldsMatchingFiles ==
    (rd["cls"] \in ArchiveClasses
        /\ \A i \in DOMAIN content : content[i].type \in {"file", "dir"})
    => /\ IsPrefix(yielded, C6_Expected)
       /\ pc = "finished" => yielded = C6_Expected

C6_Witness ==
    /\ rd["cls"] = "ZipReader"
    /\ pc = "finished"
    /\ C6_Filter = <<"a">>
    /\ content = << [name |-> <<"a", "/">>, type |-> "dir"],
                    [name |-> <<"b">>, type |-> "file"],
                    [name |-> <<"a">>, type |-> "file"] >>
    /\ yielded = <<[member |-> 3]>>

\* C7: JsonReader yields the K elements of a top-level list in order, the
\* single value of a top-level non-list, and for undecodable content yields
\* nothing and raises ReaderError.
C7_JsonYields ==
    (rd["cls"] = "JsonReader" /\ src # "none" /\ pc \in {"finished", "raised"})
    => CASE content.kind = "list" ->
                pc = "finished" /\ yielded = content.items
         [] content.kind = "object" ->
                pc = "finished" /\ yielded = <<content>>
         [] OTHER ->
                pc = "raised" /\ err = "ReaderError" /\ yielded = <<>>

C8_Bodies(rs) == [i \in 1..Len(rs) |-> rs[i].content]

C8_Ok(resp) == resp.status_code = 200

C8_OneRequestPerId ==
    /\ err = "none"
    /\ Len(requests) = idx
    /\ idx <= Len(Ids(rd))
    /\ \A i \in 1..idx :
        requests[i] = (IF item.kind = "Url" THEN item.url ELSE rd["origin"])
                      \o Ids(rd)[i]
    /\ pc = "finished" => idx = Len(Ids(rd))
    /\ pc # "raised"

\* C8 (as claimed): one request per identifier in list order; the bodies of
\* the status 200 responses are yielded in that order; a response of another
\* status raises nothing, is not retried, and its body is not yielded.
C8_HTTPYieldsAsClaimed ==
    rd["cls"] = "SimpleHTTPReader" =>
        /\ C8_OneRequestPerId
        /\ yielded = C8_Bodies(SelectSeq(responses, C8_Ok))

\* C8 (amended): one request per identifier in list order; the body of every
\* response, whatever its status, is yielded in that order; a response of
\* another status than 200 raises nothing and is not retried.
C8_HTTPYields ==
    rd["cls"] = "SimpleHTTPReader" =>
        /\ C8_OneRequestPerId
        /\ yielded = C8_Bodies(responses)

C8_Witness ==
    /\ rd["cls"] = "SimpleHTTPReader"
    /\ pc = "finished"
    /\ Len(requests) = 2
    /\ responses[1].status_code = 404
    /\ responses[2].status_code = 200
    /\ Len(yielded) = 2
    /\ yielded[1].status = 404

\* C9: when the caller supplies an item, whatever its value (an empty
\* buffer, an empty string, another empty value), read of a reader with a
\* configured origin iterates over the item and never opens the origin; the
\* origin is opened only when no item is supplied.
C9_ItemNeverOpensOrigin ==
    (rd["cls"] \in BaseClasses \cup ArchiveClasses /\ "origin" \in DOMAIN rd
        /\ pc # "created")
    => /\ item.kind # "None" => (src = "item" /\ "file" \notin handles)
       /\ src = "origin" => item.kind = "None"

C10_Opened == {"file", "archive", "gzip"}

C10_ClosedAtEnd == Ended => (owned = <<>> /\ handles \cap C10_Opened = {})

C10_OwnedAreOpen == ~Ended => Range(owned) = handles \cap C10_Opened

C10_ItemStaysOpen == IsHandle(item) => "item" \in handles

\* C10 (as claimed): a reader holds at most one resource it opened at any
\* time; what it opened is closed once the iteration ends (exhaustion, error,
\* close by the consumer); an item supplied as an open handle is never closed
\* by the reader.
C10_ResourcesAsClaimed ==
    rd["cls"] \in BaseClasses \cup ArchiveClasses =>
        /\ Len(owned) <= 1
        /\ C10_OwnedAreOpen
        /\ C10_ClosedAtEnd
        /\ C10_ItemStaysOpen

\* C10 (amended): a reader holds at most one resource it opened at any time,
\* except a GzipReader reading from its origin, which holds two while its
\* unit is out: the file and the decompressed stream over it; the rest as
\* claimed.
C10_Resources ==
    rd["cls"] \in BaseClasses \cup ArchiveClasses =>
        /\ Len(owned) <= 2
        /\ Len(owned) = 2 =>
            (rd["cls"] = "GzipReader" /\ src = "origin"
                /\ owned = <<"file", "gzip">>)
        /\ C10_OwnedAreOpen
        /\ C10_ClosedAtEnd
        /\ C10_ItemStaysOpen

C10_Witness ==
    /\ rd["cls"] = "GzipReader"
    /\ src = "origin"
    /\ pc = "closed"
    /\ yielded = <<"gp">>
    /\ owned = <<>>
    /\ handles = {}

====
